---- MODULE Spec2Model ----
(***************************************************************************)
(* Decision-evidence pipeline: Landing -> Silver/Rejects                   *)
(* (scripts/validate_to_silver.py) and Silver/Rejects -> Gold              *)
(* (scripts/curate_to_gold.py).                                            *)
(*                                                                         *)
(* Text is a sequence of one-character strings.  A JSON value is a record  *)
(* [t, b, n, s, k]: t the JSON/Python type, b a bool's value, n an int's   *)
(* value, the number of elements of an array, or a float's value counted   *)
(* in units of 1e-4, s a string's text, k a float's class (fin, nan, inf,  *)
(* ninf).  A key missing from an object is the value Absent.               *)
(*                                                                         *)
(* Floats are binary floating point with a MantBits-bit significand over   *)
(* the 1e-4 grid (Python's float has 53 bits): every value of magnitude    *)
(* below 2^MantBits units is exact, larger ones are rounded to nearest,    *)
(* ties to even, after every operation.                                    *)
(***************************************************************************)
EXTENDS Integers, Sequences, FiniteSets, TLC

VARIABLES
    raw,          \* validate_event: the record under validation
    res,          \* validate_event: its (clean, reject) result
    landing,      \* Landing directory: whether it exists, file name -> lines
    silver,       \* Silver clean stream: whether it exists, its rows
    rejects,      \* Rejects stream: whether it exists, its rows
    run,          \* validate_to_silver.main: position of the running process
    clock,        \* the wall clock _utc_now_iso reads
    nruns,        \* runs of validate_to_silver.main started so far
    lastGood,     \* streams as the most recent successful run left them
    cleanIn,      \* curate_to_gold: lines of the Silver clean file
    rejectsIn,    \* curate_to_gold: lines of the Rejects file
    gold          \* curate_to_gold.main: status and the Gold outputs

vars == <<raw, res, landing, silver, rejects, run, clock, nruns, lastGood,
          cleanIn, rejectsIn, gold>>

silverVars == <<landing, silver, rejects, run, clock, nruns, lastGood>>
validateVars == <<raw, res>>
goldVars == <<cleanIn, rejectsIn, gold>>

(***************************************************************************)
(* Bounds of the model.                                                    *)
(***************************************************************************)
MantBits == 14
MaxFiles == 2
MaxLines == 2
MaxRuns == 2
MaxRows == 3
MaxClock == 1

(***************************************************************************)
(* Python values.                                                          *)
(***************************************************************************)
Absent == [t |-> "absent", b |-> FALSE, n |-> 0, s |-> <<>>, k |-> "fin"]
Null == [t |-> "null", b |-> FALSE, n |-> 0, s |-> <<>>, k |-> "fin"]
Bool(x) == [t |-> "bool", b |-> x, n |-> 0, s |-> <<>>, k |-> "fin"]
IntV(i) == [t |-> "int", b |-> FALSE, n |-> i, s |-> <<>>, k |-> "fin"]
FloatV(m) == [t |-> "float", b |-> FALSE, n |-> m, s |-> <<>>, k |-> "fin"]
NaN == [t |-> "float", b |-> FALSE, n |-> 0, s |-> <<>>, k |-> "nan"]
PosInf == [t |-> "float", b |-> FALSE, n |-> 0, s |-> <<>>, k |-> "inf"]
NegInf == [t |-> "float", b |-> FALSE, n |-> 0, s |-> <<>>, k |-> "ninf"]
Str(x) == [t |-> "str", b |-> FALSE, n |-> 0, s |-> x, k |-> "fin"]
Arr(len) == [t |-> "arr", b |-> FALSE, n |-> len, s |-> <<>>, k |-> "fin"]
Obj == [t |-> "obj", b |-> FALSE, n |-> 0, s |-> <<>>, k |-> "fin"]

\* dict.get(key): None for a missing key
Get(d, key) == IF d[key].t = "absent" THEN Null ELSE d[key]

\* A lone UTF-16 surrogate, as json.loads makes of the escape \ud800.
Surrogate == "uD800"

SpaceChars == {" ", "\t"}
LowerLetters == <<"a","b","c","d","e","f","g","h","i","j","k","l","m",
                  "n","o","p","q","r","s","t","u","v","w","x","y","z">>
UpperLetters == <<"A","B","C","D","E","F","G","H","I","J","K","L","M",
                  "N","O","P","Q","R","S","T","U","V","W","X","Y","Z">>
DigitChars == <<"0","1","2","3","4","5","6","7","8","9">>

IsDigit(c) == \E i \in 1..10 : DigitChars[i] = c
DigitVal(c) == (CHOOSE i \in 1..10 : DigitChars[i] = c) - 1

RECURSIVE LStrip(_)
LStrip(s) ==
    IF s # <<>> /\ Head(s) \in SpaceChars THEN LStrip(Tail(s)) ELSE s

RECURSIVE RStrip(_)
RStrip(s) ==
    IF s # <<>> /\ s[Len(s)] \in SpaceChars
    THEN RStrip(SubSeq(s, 1, Len(s) - 1))
    ELSE s

\* str.strip()
Strip(s) == RStrip(LStrip(s))

UpperChar(c) ==
    IF \E i \in 1..26 : LowerLetters[i] = c
    THEN UpperLetters[CHOOSE i \in 1..26 : LowerLetters[i] = c]
    ELSE c

\* str.upper()
Upper(s) == [i \in 1..Len(s) |-> UpperChar(s[i])]

RECURSIVE NatDigits(_)
NatDigits(i) ==
    IF i < 10 THEN <<DigitChars[i + 1]>>
    ELSE NatDigits(i \div 10) \o <<DigitChars[(i % 10) + 1]>>

IntText(i) == IF i < 0 THEN <<"-">> \o NatDigits(-i) ELSE NatDigits(i)

RECURSIVE DropZeros(_)
DropZeros(s) ==
    IF Len(s) > 1 /\ s[Len(s)] = "0"
    THEN DropZeros(SubSeq(s, 1, Len(s) - 1))
    ELSE s

Pad(i, width) ==
    LET d == NatDigits(i)
    IN [j \in 1..(width - Len(d)) |-> "0"] \o d

\* repr of a finite float on the 1e-4 grid: 5000 -> 0.5, 10000 -> 1.0
FloatText(m) ==
    LET a == IF m < 0 THEN -m ELSE m
    IN (IF m < 0 THEN <<"-">> ELSE <<>>)
       \o NatDigits(a \div 10000) \o <<".">> \o DropZeros(Pad(a % 10000, 4))

\* str(v)
PyStr(v) ==
    CASE v.t = "str" -> v.s
      [] v.t = "null" -> <<"N","o","n","e">>
      [] v.t = "bool" -> IF v.b THEN <<"T","r","u","e">>
                         ELSE <<"F","a","l","s","e">>
      [] v.t = "int" -> IntText(v.n)
      [] v.t = "float" ->
            CASE v.k = "nan" -> <<"n","a","n">>
              [] v.k = "inf" -> <<"i","n","f">>
              [] v.k = "ninf" -> <<"-","i","n","f">>
              [] OTHER -> FloatText(v.n)
      [] v.t = "arr" -> IF v.n = 0 THEN <<"[","]">> ELSE <<"[","1","]">>
      [] OTHER -> <<"{","}">>

_safe_str(v) == IF v.t = "null" THEN <<>> ELSE PyStr(v)

\* bool(v): Python truthiness
Truthy(v) ==
    CASE v.t = "null" -> FALSE
      [] v.t = "bool" -> v.b
      [] v.t = "int" -> v.n # 0
      [] v.t = "float" -> v.k # "fin" \/ v.n # 0
      [] v.t = "str" -> v.s # <<>>
      [] v.t = "arr" -> v.n # 0
      [] OTHER -> FALSE

(***************************************************************************)
(* Python float arithmetic.                                                *)
(***************************************************************************)
RECURSIVE Pow2(_)
Pow2(e) == IF e = 0 THEN 1 ELSE 2 * Pow2(e - 1)

Abs(x) == IF x < 0 THEN -x ELSE x

\* The spacing of representable values around magnitude a.
RECURSIVE Quantum(_, _)
Quantum(a, q) == IF a < Pow2(MantBits) * q THEN q ELSE Quantum(a, 2 * q)

\* Round to nearest representable value, ties to even.
FRound(x) ==
    LET a == Abs(x)
        q == Quantum(a, 1)
        r == a % q
        lo == a - r
        up == IF 2 * r > q \/ (2 * r = q /\ (lo \div q) % 2 = 1)
              THEN lo + q ELSE lo
    IN IF x < 0 THEN -up ELSE up

\* a + b on floats
FloatAdd(a, b) ==
    CASE a.k = "nan" \/ b.k = "nan" -> NaN
      [] a.k = "inf" -> IF b.k = "ninf" THEN NaN ELSE PosInf
      [] a.k = "ninf" -> IF b.k = "inf" THEN NaN ELSE NegInf
      [] b.k # "fin" -> b
      [] OTHER -> FloatV(FRound(a.n + b.n))

\* a < b on floats: every comparison with nan is false
FloatLess(a, b) ==
    CASE a.k = "nan" \/ b.k = "nan" -> FALSE
      [] a.k = "inf" -> FALSE
      [] b.k = "ninf" -> FALSE
      [] a.k = "ninf" -> TRUE
      [] b.k = "inf" -> TRUE
      [] OTHER -> a.n < b.n

\* Nearest integer to num / den (den > 0), ties to even.
RoundDiv(num, den) ==
    LET a == Abs(num)
        lo == a \div den
        r == a % den
        up == IF 2 * r > den \/ (2 * r = den /\ lo % 2 = 1)
              THEN lo + 1 ELSE lo
    IN IF num < 0 THEN -up ELSE up

\* round(x / d, 4) for a float x and a count d >= 1; round(x, 4) is d = 1
Round4(x, d) == IF x.k = "fin" THEN FloatV(FRound(RoundDiv(x.n, d))) ELSE x

AllDigits(s) == \A i \in 1..Len(s) : IsDigit(s[i])

RECURSIVE DigitsVal(_)
DigitsVal(s) ==
    IF s = <<>> THEN 0
    ELSE 10 * DigitsVal(SubSeq(s, 1, Len(s) - 1)) + DigitVal(s[Len(s)])

IndexOf(s, c) ==
    IF \E i \in 1..Len(s) : s[i] = c
    THEN CHOOSE i \in 1..Len(s) : s[i] = c /\ \A j \in 1..(i - 1) : s[j] # c
    ELSE 0

\* float(text): decimal literals with up to four fractional digits (longer
\* fractions are cut to the grid), nan, inf and infinity; None on ValueError
FloatOfText(text) ==
    LET s == Strip(text)
        signed == s # <<>> /\ Head(s) \in {"+", "-"}
        neg == signed /\ Head(s) = "-"
        body == IF signed THEN Tail(s) ELSE s
        dot == IndexOf(body, ".")
        ip == IF dot = 0 THEN body ELSE SubSeq(body, 1, dot - 1)
        fp == IF dot = 0 THEN <<>> ELSE SubSeq(body, dot + 1, Len(body))
        f4 == [i \in 1..4 |-> IF i <= Len(fp) THEN fp[i] ELSE "0"]
        mag == DigitsVal(ip) * 10000 + DigitsVal(f4)
    IN CASE Upper(body) = <<"N","A","N">> -> NaN
         [] Upper(body) \in {<<"I","N","F">>,
                             <<"I","N","F","I","N","I","T","Y">>} ->
               IF neg THEN NegInf ELSE PosInf
         [] AllDigits(ip) /\ AllDigits(fp) /\ Len(ip) + Len(fp) > 0 ->
               FloatV(FRound(IF neg THEN -mag ELSE mag))
         [] OTHER -> Null

\* float(v); None stands for the TypeError or ValueError it raises
PyFloat(v) ==
    CASE v.t = "float" -> v
      [] v.t = "int" -> FloatV(FRound(v.n * 10000))
      [] v.t = "bool" -> FloatV(IF v.b THEN 10000 ELSE 0)
      [] v.t = "str" -> FloatOfText(v.s)
      [] OTHER -> Null

_as_float(v) == IF v.t = "null" THEN Null ELSE PyFloat(v)

(***************************************************************************)
(* Timestamps: datetime.fromisoformat, astimezone(utc), isoformat.  The    *)
(* parser covers the texts YYYY-MM-DD, YYYY-MM-DD?HH:MM:SS and             *)
(* YYYY-MM-DD?HH:MM:SS+HH:MM (? any character); any other text is a        *)
(* ValueError.  Timestamps of the model are drawn from these shapes.       *)
(***************************************************************************)
\* str.replace(pat, rep)
RECURSIVE ReplaceAll(_, _, _)
ReplaceAll(s, pat, rep) ==
    IF Len(s) < Len(pat) THEN s
    ELSE IF SubSeq(s, 1, Len(pat)) = pat
         THEN rep \o ReplaceAll(SubSeq(s, Len(pat) + 1, Len(s)), pat, rep)
         ELSE <<Head(s)>> \o ReplaceAll(Tail(s), pat, rep)

UtcSuffix == <<"+","0","0",":","0","0">>

IsLeap(y) == (y % 4 = 0 /\ y % 100 # 0) \/ y % 400 = 0

DaysInMonth(y, mo) ==
    CASE mo \in {4, 6, 9, 11} -> 30
      [] mo = 2 -> IF IsLeap(y) THEN 29 ELSE 28
      [] OTHER -> 31

NoDate == [ok |-> FALSE, y |-> 0, mo |-> 0, d |-> 0, h |-> 0, mi |-> 0,
           sec |-> 0, aware |-> FALSE, off |-> 0]

Num2(s, at) == DigitsVal(SubSeq(s, at, at + 1))

DateShape(s) ==
    /\ AllDigits(SubSeq(s, 1, 4)) /\ s[5] = "-"
    /\ AllDigits(SubSeq(s, 6, 7)) /\ s[8] = "-"
    /\ AllDigits(SubSeq(s, 9, 10))

TimeShape(s, at) ==
    /\ AllDigits(SubSeq(s, at, at + 1)) /\ s[at + 2] = ":"
    /\ AllDigits(SubSeq(s, at + 3, at + 4)) /\ s[at + 5] = ":"
    /\ AllDigits(SubSeq(s, at + 6, at + 7))

OffsetShape(s, at) ==
    /\ s[at] \in {"+", "-"}
    /\ AllDigits(SubSeq(s, at + 1, at + 2)) /\ s[at + 3] = ":"
    /\ AllDigits(SubSeq(s, at + 4, at + 5))

\* datetime.fromisoformat(s); ok = FALSE stands for its ValueError
fromisoformat(s) ==
    LET shaped == /\ Len(s) \in {10, 19, 25}
                  /\ DateShape(s)
                  /\ Len(s) >= 19 => TimeShape(s, 12)
                  /\ Len(s) = 25 => OffsetShape(s, 20)
        y == DigitsVal(SubSeq(s, 1, 4))
        mo == Num2(s, 6)
        d == Num2(s, 9)
        h == IF Len(s) >= 19 THEN Num2(s, 12) ELSE 0
        mi == IF Len(s) >= 19 THEN Num2(s, 15) ELSE 0
        sec == IF Len(s) >= 19 THEN Num2(s, 18) ELSE 0
        oh == IF Len(s) = 25 THEN Num2(s, 21) ELSE 0
        om == IF Len(s) = 25 THEN Num2(s, 24) ELSE 0
        off == IF Len(s) = 25 /\ s[20] = "-" THEN -(60 * oh + om)
               ELSE 60 * oh + om
    IN IF /\ shaped
          /\ y >= 1 /\ mo \in 1..12 /\ d \in 1..DaysInMonth(y, mo)
          /\ h <= 23 /\ mi <= 59 /\ sec <= 59 /\ oh <= 23 /\ om <= 59
       THEN [ok |-> TRUE, y |-> y, mo |-> mo, d |-> d, h |-> h, mi |-> mi,
             sec |-> sec, aware |-> Len(s) = 25, off |-> off]
       ELSE NoDate

\* dt.astimezone(timezone.utc) of an aware datetime; ok = FALSE stands for
\* the OverflowError of a date outside years 1..9999
astimezone_utc(dt) ==
    LET total == 60 * dt.h + dt.mi - dt.off
        shift == IF total < 0 THEN -1 ELSE IF total >= 1440 THEN 1 ELSE 0
        t == total - 1440 * shift
        back == dt.d = 1
        fwd == dt.d = DaysInMonth(dt.y, dt.mo)
        y == CASE shift = -1 /\ back /\ dt.mo = 1 -> dt.y - 1
               [] shift = 1 /\ fwd /\ dt.mo = 12 -> dt.y + 1
               [] OTHER -> dt.y
        mo == CASE shift = -1 /\ back -> IF dt.mo = 1 THEN 12 ELSE dt.mo - 1
                [] shift = 1 /\ fwd -> IF dt.mo = 12 THEN 1 ELSE dt.mo + 1
                [] OTHER -> dt.mo
        d == CASE shift = -1 /\ back -> DaysInMonth(y, mo)
               [] shift = 1 /\ fwd -> 1
               [] OTHER -> dt.d + shift
    IN IF y < 1 \/ y > 9999 THEN NoDate
       ELSE [ok |-> TRUE, y |-> y, mo |-> mo, d |-> d, h |-> t \div 60,
             mi |-> t % 60, sec |-> dt.sec, aware |-> TRUE, off |-> 0]

\* date.isoformat()
DateText(dt) ==
    Pad(dt.y, 4) \o <<"-">> \o Pad(dt.mo, 2) \o <<"-">> \o Pad(dt.d, 2)

\* datetime.isoformat() of a datetime in UTC
isoformat(dt) ==
    DateText(dt) \o <<"T">> \o Pad(dt.h, 2) \o <<":">> \o Pad(dt.mi, 2)
       \o <<":">> \o Pad(dt.sec, 2) \o UtcSuffix

\* The normalized Z text as a str value, or None if invalid.
_parse_iso_ts(v) ==
    IF v.t # "str" \/ Strip(v.s) = <<>> THEN Null
    ELSE LET text == Strip(v.s)
             dt == IF text[Len(text)] = "Z"
                   THEN fromisoformat(ReplaceAll(text, <<"Z">>, UtcSuffix))
                   ELSE fromisoformat(text)
             aware == IF dt.aware THEN dt
                      ELSE [dt EXCEPT !.aware = TRUE, !.off = 0]
             utc == IF dt.ok THEN astimezone_utc(aware) ELSE NoDate
         IN IF utc.ok
            THEN Str(ReplaceAll(isoformat(utc), UtcSuffix, <<"Z">>))
            ELSE Null

(***************************************************************************)
(* validate_to_silver.py: the record validator.                            *)
(***************************************************************************)
MISSING_DECISION_ID == <<"M","I","S","S","I","N","G","_","D","E","C","I","S","I","O","N","_","I","D">>
MISSING_DECISION_TYPE == <<"M","I","S","S","I","N","G","_","D","E","C","I","S","I","O","N","_","T","Y","P","E">>
MISSING_MODEL_VERSION == <<"M","I","S","S","I","N","G","_","M","O","D","E","L","_","V","E","R","S","I","O","N">>
MISSING_CONFIDENCE_SCORE == <<"M","I","S","S","I","N","G","_","C","O","N","F","I","D","E","N","C","E","_","S","C","O","R","E">>
INVALID_CONFIDENCE_SCORE == <<"I","N","V","A","L","I","D","_","C","O","N","F","I","D","E","N","C","E","_","S","C","O","R","E">>
INVALID_RISK_BAND == <<"I","N","V","A","L","I","D","_","R","I","S","K","_","B","A","N","D">>
MISSING_POLICY_ID == <<"M","I","S","S","I","N","G","_","P","O","L","I","C","Y","_","I","D">>
INVALID_DECISION_TS == <<"I","N","V","A","L","I","D","_","D","E","C","I","S","I","O","N","_","T","S">>
INVALID_JSON == <<"I","N","V","A","L","I","D","_","J","S","O","N">>
UNKNOWN == <<"U","N","K","N","O","W","N">>
UNKNOWN_DAY == <<"U","N","K","N","O","W","N","_","D","A","Y">>
VALID_RISK_BANDS == {<<"L","O","W">>, <<"M","E","D","I","U","M">>, <<"H","I","G","H">>}

Fields == {"decision_id", "decision_type", "model_version",
           "confidence_score", "risk_band", "policy_id", "decision_ts",
           "facility_code", "input_features_hash", "override_flag",
           "override_reason_code"}

\* _safe_str(raw.get(key)).strip()
StrippedField(rec, key) == Strip(_safe_str(Get(rec, key)))

\* Mutant of FacilityCode: no default for an empty facility_code.
FacilityCodeNoDefault(rec) == StrippedField(rec, "facility_code")

\* facility_code: the stripped text, UNKNOWN if empty
FacilityCode(rec) ==
    LET facility_code_raw == StrippedField(rec, "facility_code")
    IN IF facility_code_raw # <<>> THEN facility_code_raw ELSE UNKNOWN

\* risk_band normalization
RiskBand(rec) == Upper(StrippedField(rec, "risk_band"))

\* The reject conditions in the order the code tests them: the code and
\* detail of the first one that holds, or <<>> when none does.
RejectReason(rec) ==
    LET model_version == Get(rec, "model_version")
        conf == _as_float(Get(rec, "confidence_score"))
    IN CASE StrippedField(rec, "decision_id") = <<>> ->
               <<MISSING_DECISION_ID, "decision_id is required">>
         [] StrippedField(rec, "decision_type") = <<>> ->
               <<MISSING_DECISION_TYPE, "decision_type is required">>
         [] \/ model_version.t = "null"
            \/ (model_version.t = "str" /\ Strip(model_version.s) = <<>>) ->
               <<MISSING_MODEL_VERSION,
                 "model_version is required and must be non-empty">>
         [] conf.t = "null" ->
               <<MISSING_CONFIDENCE_SCORE,
                 "confidence_score is required and must be numeric">>
         [] FloatLess(conf, FloatV(0)) \/ FloatLess(FloatV(10000), conf) ->
               <<INVALID_CONFIDENCE_SCORE,
                 "confidence_score must be between 0 and 1">>
         [] RiskBand(rec) \notin VALID_RISK_BANDS ->
               <<INVALID_RISK_BAND,
                 "risk_band must be one of ['HIGH', 'LOW', 'MEDIUM']">>
         [] StrippedField(rec, "policy_id") = <<>> ->
               <<MISSING_POLICY_ID, "policy_id is required">>
         [] _parse_iso_ts(Get(rec, "decision_ts")).t = "null" ->
               <<INVALID_DECISION_TS, "decision_ts must be ISO parseable">>
         [] OTHER -> <<>>

\* The reject record of a failed rule.
RejectRecord(rec, now, reason) ==
    [rejected_at_utc |-> now,
     decision_id |-> IF StrippedField(rec, "decision_id") = <<>> THEN Null
                     ELSE Str(StrippedField(rec, "decision_id")),
     reject_reason_code |-> Str(reason[1]),
     reject_reason_detail |-> reason[2],
     raw_payload |-> [dumps |-> rec]]

\* The clean record of a record that passed every rule.
CleanRecord(rec, now) ==
    [decision_id |-> Str(StrippedField(rec, "decision_id")),
     decision_type |-> Str(StrippedField(rec, "decision_type")),
     model_version |-> Str(StrippedField(rec, "model_version")),
     confidence_score |-> Round4(_as_float(Get(rec, "confidence_score")), 1),
     risk_band |-> Str(RiskBand(rec)),
     policy_id |-> Str(StrippedField(rec, "policy_id")),
     facility_code |-> Str(FacilityCode(rec)),
     decision_ts |-> _parse_iso_ts(Get(rec, "decision_ts")),
     input_features_hash |-> Get(rec, "input_features_hash"),
     override_flag |-> IF Get(rec, "override_flag").t # "null"
                       THEN Bool(Truthy(Get(rec, "override_flag")))
                       ELSE Null,
     override_reason_code |-> Get(rec, "override_reason_code"),
     ingested_at_utc |-> now]

\* (clean_record, reject_record): exactly one is not None
validate_event(rec, now) ==
    LET reason == RejectReason(rec)
    IN IF reason # <<>>
       THEN [clean |-> Null, reject |-> RejectRecord(rec, now, reason)]
       ELSE [clean |-> CleanRecord(rec, now), reject |-> Null]

(***************************************************************************)
(* The validator on its own: one raw record, validated, and validated      *)
(* again with another facility_code.                                       *)
(***************************************************************************)
TxtD1 == <<"d","1">>
TxtBlank == <<" ">>
TxtType == <<"t">>
TxtV1 == <<"v","1">>
TxtAbc == <<"a","b","c">>
TxtNan == <<"n","a","n">>
TxtLow == <<"l","o","w">>
TxtBad == <<"b","a","d">>
TxtPolicy == <<"p","1">>
TxtF1 == <<" ","F","1"," ">>
TxtYes == <<"y","e","s">>
TsZulu == <<"2","0","2","4","-","0","1","-","0","1","T","1","0",":","0","0",":","0","0","Z">>
TsOffset == <<"2","0","2","4","-","0","1","-","0","1","T","2","3",":","0","0",":","0","0","-","0","5",":","0","0">>
TsBadMonth == <<"2","0","2","4","-","1","3","-","0","1","T","0","0",":","0","0",":","0","0","Z">>
TxtHalf == <<"0",".","5">>

FacilityValues ==
    {Absent, Null, Str(<<>>), Str(TxtBlank), Str(TxtF1), IntV(12)}

RawRecords ==
    [decision_id : {Absent, Str(TxtD1), Str(TxtBlank), IntV(7)},
     decision_type : {Null, Str(TxtType)},
     model_version : {Absent, Str(TxtBlank), Str(TxtV1), IntV(0)},
     confidence_score : {Absent, Str(TxtAbc), Str(TxtNan), Bool(TRUE),
                         FloatV(5000), FloatV(15000), FloatV(-1), NaN,
                         PosInf},
     risk_band : {Absent, Str(TxtLow), Str(TxtBad)},
     policy_id : {Null, Str(TxtPolicy)},
     decision_ts : {Absent, Str(TsZulu), Str(TsOffset), Str(TsBadMonth)},
     facility_code : FacilityValues,
     input_features_hash : {Absent},
     override_flag : {Absent, Str(TxtYes), IntV(0)},
     override_reason_code : {Absent}]

NoRecord == [f \in Fields |-> Absent]
NoResult == [clean |-> Null, reject |-> Null]
NoStream == [exists |-> FALSE, rows |-> <<>>]
NoLanding == [exists |-> FALSE, other |-> FALSE, files |-> <<>>]
IdleRun == [pc |-> "idle", files |-> <<>>, fi |-> 1, li |-> 1,
            clean_count |-> 0, reject_count |-> 0]
NoGold == [pc |-> "idle", decisions_out |-> <<>>, rejects_out |-> <<>>,
           decisions_csv |-> NoStream, decisions_jsonl |-> NoStream,
           rejects_csv |-> NoStream, rejects_jsonl |-> NoStream]

SilverIdle ==
    /\ landing = NoLanding /\ silver = NoStream /\ rejects = NoStream
    /\ run = IdleRun /\ clock = 0 /\ nruns = 0
    /\ lastGood = [silver |-> NoStream, rejects |-> NoStream]

GoldIdle == cleanIn = NoStream /\ rejectsIn = NoStream /\ gold = NoGold

ValidateIdle == raw = NoRecord /\ res = NoResult

InitValidate ==
    /\ raw \in RawRecords
    /\ res = NoResult
    /\ SilverIdle
    /\ GoldIdle

\* clean, reject = validate_event(raw)
Validate ==
    /\ res = NoResult
    /\ res' = validate_event(raw, clock)
    /\ UNCHANGED <<raw, silverVars, goldVars>>

\* validate_event on the record with another facility_code
Revalidate ==
    /\ res # NoResult
    /\ \E v \in FacilityValues :
          /\ v # raw.facility_code
          /\ raw' = [raw EXCEPT !.facility_code = v]
          /\ res' = validate_event(raw', clock)
    /\ UNCHANGED <<silverVars, goldVars>>

NextValidate == Validate \/ Revalidate

SpecValidate == InitValidate /\ [][NextValidate]_vars

(***************************************************************************)
(* The contract rules 1..8 as the specification words them.                *)
(***************************************************************************)
IsBlankText(s) == \A i \in 1..Len(s) : s[i] \in SpaceChars

\* missing/blank: absent, null, or text that is empty or only whitespace
MissingOrBlank(v) ==
    v.t \in {"absent", "null"} \/ (v.t = "str" /\ IsBlankText(v.s))

\* a number within [0, 1]
InUnitInterval(x) == x.t = "float" /\ x.k = "fin" /\ 0 <= x.n /\ x.n <= 10000

RuleFails(i, rec) ==
    CASE i = 1 -> MissingOrBlank(rec.decision_id)
      [] i = 2 -> MissingOrBlank(rec.decision_type)
      [] i = 3 -> MissingOrBlank(rec.model_version)
      [] i = 4 -> _as_float(Get(rec, "confidence_score")).t = "null"
      [] i = 5 -> /\ _as_float(Get(rec, "confidence_score")).t # "null"
                  /\ ~InUnitInterval(_as_float(Get(rec, "confidence_score")))
      [] i = 6 -> RiskBand(rec) \notin VALID_RISK_BANDS
      [] i = 7 -> MissingOrBlank(rec.policy_id)
      [] OTHER -> _parse_iso_ts(Get(rec, "decision_ts")).t = "null"

RuleCode ==
    <<MISSING_DECISION_ID, MISSING_DECISION_TYPE, MISSING_MODEL_VERSION,
      MISSING_CONFIDENCE_SCORE, INVALID_CONFIDENCE_SCORE, INVALID_RISK_BAND,
      MISSING_POLICY_ID, INVALID_DECISION_TS>>

FailingRules(rec) == {i \in 1..8 : RuleFails(i, rec)}

FirstFailing(rec) ==
    CHOOSE i \in FailingRules(rec) : \A j \in FailingRules(rec) : i <= j

IsClean(r) == r.clean # Null /\ r.reject = Null
IsReject(r) == r.clean = Null /\ r.reject # Null

PriorityHolds ==
    res # NoResult =>
       IF FailingRules(raw) = {}
       THEN IsClean(res)
       ELSE /\ IsReject(res)
            /\ res.reject.reject_reason_code = Str(RuleCode[FirstFailing(raw)])

\* C2: whenever a rule fails the record is rejected with the code of the
\* lowest-numbered failing rule, and a record is clean only when no rule fails.
C2_Priority == PriorityHolds

\* The priority order does hold for every record whose confidence_score is
\* not a nan.
C2_PriorityExceptNaN ==
    _as_float(Get(raw, "confidence_score")).k # "nan" => PriorityHolds

NonEmptyText(v) == v.t = "str" /\ v.s # <<>>

\* the canonical UTC text YYYY-MM-DDTHH:MM:SSZ
IsCanonicalUtc(v) ==
    /\ v.t = "str" /\ Len(v.s) = 20 /\ v.s[20] = "Z" /\ v.s[11] = "T"
    /\ fromisoformat(SubSeq(v.s, 1, 19)).ok

CleanInvariant(c) ==
    /\ NonEmptyText(c.decision_id) /\ NonEmptyText(c.decision_type)
    /\ NonEmptyText(c.model_version) /\ NonEmptyText(c.policy_id)
    /\ NonEmptyText(c.facility_code)
    /\ InUnitInterval(c.confidence_score)
    /\ c.risk_band.t = "str" /\ c.risk_band.s \in VALID_RISK_BANDS
    /\ IsCanonicalUtc(c.decision_ts)

\* C3: every clean record validate_event returns satisfies the CleanRecord
\* invariant, whatever the raw record.
C3_CleanInvariant == res.clean # Null => CleanInvariant(res.clean)

\* Every clean record satisfies the invariant but for a nan confidence_score.
C3_CleanInvariantExceptNaN ==
    (res.clean # Null /\ res.clean.confidence_score.k # "nan")
       => CleanInvariant(res.clean)

\* UNKNOWN for an absent or blank facility_code, else the trimmed text of the
\* source value
ExpectedFacility(v) ==
    IF MissingOrBlank(v) THEN UNKNOWN ELSE Strip(PyStr(v))

SameOutcome(a, b) ==
    /\ IsClean(a) = IsClean(b)
    /\ IsReject(a) = IsReject(b)
    /\ IsReject(a) =>
          a.reject.reject_reason_code = b.reject.reject_reason_code

\* C7: facility_code alone never decides the outcome: records that differ
\* only in facility_code get the same outcome kind and reject code, and a
\* clean record carries UNKNOWN for an absent or blank facility_code and the
\* trimmed source value otherwise.
C7_FacilityNeverRejects ==
    /\ [](res.clean # Null =>
            res.clean.facility_code = Str(ExpectedFacility(raw.facility_code)))
    /\ [][(res # NoResult /\ res' # NoResult) => SameOutcome(res, res')]_vars

C7_Witness ==
    /\ IsClean(res)
    /\ raw.facility_code = Str(TxtBlank)
    /\ res.clean.facility_code = Str(UNKNOWN)


(***************************************************************************)
(* validate_to_silver.py: the Landing -> Silver/Rejects runner.            *)
(*                                                                         *)
(* A line of an input file is its text (lead whitespace characters, a      *)
(* body, trail whitespace characters) together with what json.loads makes  *)
(* of the body: an error, a value that is no object, or an object.  The    *)
(* landing directory holds the *.jsonl files 1..MaxFiles, named in         *)
(* lexicographic path order, and possibly a file of another suffix.        *)
(***************************************************************************)
Line(lead, body, parse, trail) ==
    [lead |-> lead, body |-> body, json |-> parse, trail |-> trail]

JsonError == [ok |-> FALSE, isobj |-> FALSE, obj |-> NoRecord]
JsonOther == [ok |-> TRUE, isobj |-> FALSE, obj |-> NoRecord]
JsonObject(rec) == [ok |-> TRUE, isobj |-> TRUE, obj |-> rec]

\* Mutant of StripLine: the line is not stripped.
StripLineNot(line) == line

\* line.strip()
StripLine(line) == [line EXCEPT !.lead = 0, !.trail = 0]

\* not line: the stripped line is empty
IsEmptyLine(line) == line.lead = 0 /\ line.trail = 0 /\ line.body = ""

\* sorted(paths)
RECURSIVE Sorted(_)
Sorted(names) ==
    IF names = {} THEN <<>>
    ELSE LET lo == CHOOSE x \in names : \A y \in names : x <= y
         IN <<lo>> \o Sorted(names \ {lo})

\* The *.jsonl files of the directory in path order; none if it is missing.
_iter_jsonl_files(dir) ==
    IF ~dir.exists THEN <<>> ELSE Sorted(DOMAIN dir.files)

HasSurrogate(v) == v.t = "str" /\ \E i \in 1..Len(v.s) : v.s[i] = Surrogate

\* Whether f.write(json.dumps(row, ensure_ascii=False)) can encode the row
\* as UTF-8: a lone surrogate in any of its texts is a UnicodeEncodeError.
Encodable(row) ==
    \A key \in DOMAIN row :
       CASE key \in {"rejected_at_utc", "ingested_at_utc",
                     "reject_reason_detail"} -> TRUE
         [] key = "raw_payload" ->
               "dumps" \in DOMAIN row.raw_payload =>
                  \A f \in Fields : ~HasSurrogate(row.raw_payload.dumps[f])
         [] OTHER -> ~HasSurrogate(row[key])

\* Mutant of InvalidJsonReject: the row gets a facility_code as well.
InvalidJsonRejectWithFacility(line, now) ==
    [rejected_at_utc |-> now,
     decision_id |-> Null,
     reject_reason_code |-> Str(INVALID_JSON),
     reject_reason_detail |-> "Line is not valid JSON object",
     raw_payload |-> [line |-> line],
     facility_code |-> Str(UNKNOWN)]

\* The reject row of a line that is no JSON object.
InvalidJsonReject(line, now) ==
    [rejected_at_utc |-> now,
     decision_id |-> Null,
     reject_reason_code |-> Str(INVALID_JSON),
     reject_reason_detail |-> "Line is not valid JSON object",
     raw_payload |-> [line |-> line]]

\* The reject row of a record validate_event rejected, as main writes it.
ValidatedReject(reject, rec) ==
    [rejected_at_utc |-> reject.rejected_at_utc,
     decision_id |-> reject.decision_id,
     reject_reason_code |->
        Str(Upper(_safe_str(reject.reject_reason_code))),
     reject_reason_detail |-> reject.reject_reason_detail,
     raw_payload |-> reject.raw_payload,
     facility_code |->
        Str(IF StrippedField(rec, "facility_code") # <<>>
            THEN StrippedField(rec, "facility_code") ELSE UNKNOWN)]

\* The stream and row of a record validate_event has classified.
ValidatedOutput(out, rec) ==
    IF out.clean # Null
    THEN [to |-> "silver", row |-> out.clean]
    ELSE [to |-> "rejects", row |-> ValidatedReject(out.reject, rec)]

\* The stream and row of a stripped line; "none" for an empty one.
StrippedLineOutput(line, now) ==
    IF IsEmptyLine(line) THEN [to |-> "none"]
    ELSE IF ~line.json.ok \/ ~line.json.isobj
    THEN [to |-> "rejects", row |-> InvalidJsonReject(line, now)]
    ELSE ValidatedOutput(validate_event(line.json.obj, now), line.json.obj)

\* What one line of a file adds: which stream, and the row.
LineOutput(rawline, now) == StrippedLineOutput(StripLine(rawline), now)

CurrentFile == landing.files[run.files[run.fi]]

\* Mutant of StartAbort: the outputs are opened before the files are listed.
StartAbortAfterOpen ==
    /\ run.pc # "running"
    /\ nruns < MaxRuns
    /\ _iter_jsonl_files(landing) = <<>>
    /\ run' = [IdleRun EXCEPT !.pc = "aborted"]
    /\ silver' = [exists |-> TRUE, rows |-> <<>>]
    /\ rejects' = [exists |-> TRUE, rows |-> <<>>]
    /\ nruns' = nruns + 1
    /\ UNCHANGED <<landing, clock, lastGood, validateVars, goldVars>>

\* main: no input file, SystemExit before either output is opened
StartAbort ==
    /\ run.pc # "running"
    /\ nruns < MaxRuns
    /\ _iter_jsonl_files(landing) = <<>>
    /\ run' = [IdleRun EXCEPT !.pc = "aborted"]
    /\ nruns' = nruns + 1
    /\ UNCHANGED <<landing, silver, rejects, clock, lastGood,
                   validateVars, goldVars>>

\* main: both outputs opened for writing, which creates or empties them
StartOpen ==
    /\ run.pc # "running"
    /\ nruns < MaxRuns
    /\ _iter_jsonl_files(landing) # <<>>
    /\ run' = [IdleRun EXCEPT !.pc = "running",
                              !.files = _iter_jsonl_files(landing)]
    /\ silver' = [exists |-> TRUE, rows |-> <<>>]
    /\ rejects' = [exists |-> TRUE, rows |-> <<>>]
    /\ nruns' = nruns + 1
    /\ UNCHANGED <<landing, clock, lastGood, validateVars, goldVars>>

AtLine ==
    /\ run.pc = "running"
    /\ run.fi <= Len(run.files)
    /\ run.li <= Len(CurrentFile)

\* for line in f: a blank line is skipped
SkipBlank ==
    /\ AtLine
    /\ LineOutput(CurrentFile[run.li], clock).to = "none"
    /\ run' = [run EXCEPT !.li = @ + 1]
    /\ UNCHANGED <<landing, silver, rejects, clock, nruns, lastGood,
                   validateVars, goldVars>>

\* for line in f: a clean row is written
WriteClean ==
    /\ AtLine
    /\ \E out \in {LineOutput(CurrentFile[run.li], clock)} :
          /\ out.to = "silver"
          /\ Encodable(out.row)
          /\ silver' = [silver EXCEPT !.rows = Append(@, out.row)]
    /\ run' = [run EXCEPT !.li = @ + 1, !.clean_count = @ + 1]
    /\ UNCHANGED <<landing, rejects, clock, nruns, lastGood,
                   validateVars, goldVars>>

\* for line in f: a reject row is written
WriteReject ==
    /\ AtLine
    /\ \E out \in {LineOutput(CurrentFile[run.li], clock)} :
          /\ out.to = "rejects"
          /\ Encodable(out.row)
          /\ rejects' = [rejects EXCEPT !.rows = Append(@, out.row)]
    /\ run' = [run EXCEPT !.li = @ + 1, !.reject_count = @ + 1]
    /\ UNCHANGED <<landing, silver, clock, nruns, lastGood,
                   validateVars, goldVars>>

\* for line in f: the write raises UnicodeEncodeError; both outputs are
\* closed with the rows written so far and the process ends
WriteFails ==
    /\ AtLine
    /\ \E out \in {LineOutput(CurrentFile[run.li], clock)} :
          out.to # "none" /\ ~Encodable(out.row)
    /\ run' = [run EXCEPT !.pc = "crashed"]
    /\ UNCHANGED <<landing, silver, rejects, clock, nruns, lastGood,
                   validateVars, goldVars>>

\* for fp in files: the next file
NextFile ==
    /\ run.pc = "running"
    /\ run.fi <= Len(run.files)
    /\ run.li > Len(CurrentFile)
    /\ run' = [run EXCEPT !.fi = @ + 1, !.li = 1]
    /\ UNCHANGED <<landing, silver, rejects, clock, nruns, lastGood,
                   validateVars, goldVars>>

\* main: every file read, the outputs closed, the counts printed
Finish ==
    /\ run.pc = "running"
    /\ run.fi > Len(run.files)
    /\ run' = [run EXCEPT !.pc = "done"]
    /\ lastGood' = [silver |-> silver, rejects |-> rejects]
    /\ UNCHANGED <<landing, silver, rejects, clock, nruns,
                   validateVars, goldVars>>

\* The wall clock advances; the model lets it between runs only, so the rows
\* of one run carry one reading.
Tick ==
    /\ run.pc # "running"
    /\ clock < MaxClock
    /\ clock' = clock + 1
    /\ UNCHANGED <<landing, silver, rejects, run, nruns, lastGood,
                   validateVars, goldVars>>

\* After a run the input files are removed, or the whole directory is; the
\* ended process is forgotten.
ClearLanding ==
    /\ run.pc \in {"done", "crashed"}
    /\ \E dir \in {NoLanding, [exists |-> TRUE, other |-> landing.other,
                               files |-> <<>>]} :
          landing' = dir
    /\ run' = IdleRun
    /\ UNCHANGED <<silver, rejects, clock, nruns, lastGood,
                   validateVars, goldVars>>

(***************************************************************************)
(* The runner's inputs and its specification.                              *)
(***************************************************************************)
GoodRecord ==
    [NoRecord EXCEPT !.decision_id = Str(TxtD1),
                     !.decision_type = Str(TxtType),
                     !.model_version = Str(TxtV1),
                     !.confidence_score = FloatV(5000),
                     !.risk_band = Str(TxtLow),
                     !.policy_id = Str(TxtPolicy),
                     !.decision_ts = Str(TsZulu)]

\* rejected for its policy_id; facility_code with whitespace around it
NoPolicyRecord ==
    [GoodRecord EXCEPT !.policy_id = Null, !.facility_code = Str(TxtF1)]

\* valid, its decision_id written with the escape of a lone surrogate
SurrogateRecord ==
    [GoodRecord EXCEPT !.decision_id = Str(<<"d", Surrogate>>)]

SilverLines ==
    {Line(1, "", JsonError, 0),
     Line(1, "{bad", JsonError, 0),
     Line(0, "[1, 2]", JsonOther, 1),
     Line(0, "{good}", JsonObject(GoodRecord), 0),
     Line(0, "{nopolicy}", JsonObject(NoPolicyRecord), 1),
     Line(0, "{surrogate}", JsonObject(SurrogateRecord), 0)}

SeqsUpTo(S, n) == UNION {[1..k -> S] : k \in 0..n}

LineSeqs == SeqsUpTo(SilverLines, MaxLines)

\* missing; without any file; with only a file that is no *.jsonl; with
\* *.jsonl files
IsLanding(dir) ==
    \/ dir = NoLanding
    \/ dir = [exists |-> TRUE, other |-> TRUE, files |-> <<>>]
    \/ \E names \in SUBSET (1..MaxFiles) :
          \E files \in [names -> LineSeqs] :
             dir = [exists |-> TRUE, other |-> FALSE, files |-> files]

InitSilver ==
    /\ IsLanding(landing)
    /\ silver = NoStream /\ rejects = NoStream
    /\ run = IdleRun /\ clock = 0 /\ nruns = 0
    /\ lastGood = [silver |-> NoStream, rejects |-> NoStream]
    /\ ValidateIdle
    /\ GoldIdle

NextSilver ==
    \/ StartAbort \/ StartOpen
    \/ SkipBlank \/ WriteClean \/ WriteReject \/ WriteFails
    \/ NextFile \/ Finish
    \/ Tick \/ ClearLanding

SpecSilver == InitSilver /\ [][NextSilver]_vars

(***************************************************************************)
(* Properties of the runner.                                               *)
(***************************************************************************)
\* a line with anything but whitespace on it
NonBlank(line) == line.body # ""

RECURSIVE CountNonBlank(_)
CountNonBlank(lines) ==
    IF lines = <<>> THEN 0
    ELSE (IF NonBlank(Head(lines)) THEN 1 ELSE 0) + CountNonBlank(Tail(lines))

RECURSIVE SumNonBlank(_, _)
SumNonBlank(dir, names) ==
    IF names = {} THEN 0
    ELSE LET f == CHOOSE x \in names : TRUE
         IN CountNonBlank(dir.files[f]) + SumNonBlank(dir, names \ {f})

\* the non-blank lines of all input files
TotalNonBlank(dir) == SumNonBlank(dir, DOMAIN dir.files)

\* the non-blank lines the running process has read so far
ReadNonBlank ==
    SumNonBlank(landing, {run.files[i] : i \in 1..(run.fi - 1)})
    + (IF run.fi <= Len(run.files)
       THEN CountNonBlank(SubSeq(CurrentFile, 1, run.li - 1)) ELSE 0)

WrittenRows == Len(silver.rows) + Len(rejects.rows)

\* C1: when the run finishes, clean rows plus reject rows equal the non-blank
\* lines of all input files; at every point of a run each non-blank line read
\* so far has given exactly one row in exactly one stream, a blank line none.
C1_Conservation ==
    /\ run.pc \in {"running", "done", "crashed"} =>
          /\ WrittenRows = ReadNonBlank
          /\ run.clean_count = Len(silver.rows)
          /\ run.reject_count = Len(rejects.rows)
    /\ run.pc = "done" => WrittenRows = TotalNonBlank(landing)

C1_Witness ==
    /\ run.pc = "done"
    /\ Len(silver.rows) >= 1 /\ Len(rejects.rows) >= 1
    /\ TotalNonBlank(landing) = 2
    /\ \E f \in DOMAIN landing.files :
          \E i \in 1..Len(landing.files[f]) : ~NonBlank(landing.files[f][i])

NoInputFiles(dir) == ~dir.exists \/ DOMAIN dir.files = {}

\* C5: a run started on a missing directory or one without *.jsonl files
\* aborts and leaves both output streams as they were.
C5_AbortLeavesStreams ==
    [][(nruns' = nruns + 1 /\ NoInputFiles(landing)) =>
          (run'.pc = "aborted" /\ silver' = silver /\ rejects' = rejects)]_vars

C5_Witness ==
    /\ run.pc = "aborted"
    /\ NoInputFiles(landing)
    /\ silver.exists /\ Len(rejects.rows) >= 1

\* a non-blank line that is malformed JSON or JSON that is no object
InvalidJsonLine(line) == NonBlank(line) /\ (~line.json.ok \/ ~line.json.isobj)

\* The step that reads a line that is no JSON object adds exactly one reject
\* row, INVALID_JSON with a null decision_id, the given payload and no
\* facility_code, and the run goes on with the next line.
InvalidJsonStep(payload) ==
    /\ Len(rejects'.rows) = Len(rejects.rows) + 1
    /\ LET row == rejects'.rows[Len(rejects'.rows)]
       IN /\ row.reject_reason_code = Str(INVALID_JSON)
          /\ row.decision_id = Null
          /\ row.raw_payload = [line |-> payload]
          /\ "facility_code" \notin DOMAIN row
    /\ SubSeq(rejects'.rows, 1, Len(rejects.rows)) = rejects.rows
    /\ silver' = silver
    /\ run'.pc = "running" /\ run'.li = run.li + 1

\* The step that rejects a JSON object adds a row with the given
\* facility_code and the serialized record as payload.
ValidatedRejectStep(rec, facility) ==
    Len(rejects'.rows) = Len(rejects.rows) + 1 =>
       LET row == rejects'.rows[Len(rejects'.rows)]
       IN /\ "facility_code" \in DOMAIN row
          /\ row.facility_code = Str(facility)
          /\ row.raw_payload = [dumps |-> rec]

ReadsLine == AtLine /\ run' # run

\* C6 as claimed: the payload of an INVALID_JSON row is the raw line text, and
\* a validated reject carries the record's non-blank facility_code value,
\* else UNKNOWN.
C6_RawLinePayload ==
    [][ReadsLine =>
          LET line == CurrentFile[run.li]
          IN IF InvalidJsonLine(line) THEN InvalidJsonStep(line)
             ELSE NonBlank(line) =>
                     ValidatedRejectStep(line.json.obj,
                        IF MissingOrBlank(line.json.obj.facility_code)
                        THEN UNKNOWN
                        ELSE PyStr(line.json.obj.facility_code))]_vars

\* the line text without its leading and trailing whitespace
Trimmed(line) == [lead |-> 0, body |-> line.body, json |-> line.json,
                  trail |-> 0]

\* C6 amended: the payload of an INVALID_JSON row is the line text with its
\* leading and trailing whitespace removed, and a validated reject carries
\* the trimmed text of the record's facility_code, UNKNOWN if that is blank.
C6_StrippedPayload ==
    [][ReadsLine =>
          LET line == CurrentFile[run.li]
          IN IF InvalidJsonLine(line) THEN InvalidJsonStep(Trimmed(line))
             ELSE NonBlank(line) =>
                     ValidatedRejectStep(line.json.obj,
                        ExpectedFacility(line.json.obj.facility_code))]_vars

C6_Witness ==
    /\ run.pc = "running" /\ run.fi <= Len(run.files) /\ run.li = 3
    /\ InvalidJsonLine(CurrentFile[1]) /\ CurrentFile[1].lead > 0
    /\ Len(rejects.rows) = 2
    /\ rejects.rows[1].reject_reason_code = Str(INVALID_JSON)
    /\ "facility_code" \in DOMAIN rejects.rows[2]

EraseStamp(row) ==
    IF "ingested_at_utc" \in DOMAIN row
    THEN [row EXCEPT !.ingested_at_utc = 0]
    ELSE [row EXCEPT !.rejected_at_utc = 0]

EraseStamps(rows) == [i \in 1..Len(rows) |-> EraseStamp(rows[i])]

\* the rows the lines of one file give, in line order
RECURSIVE FileRows(_, _)
FileRows(lines, to) ==
    IF lines = <<>> THEN <<>>
    ELSE LET out == LineOutput(Head(lines), 0)
         IN (IF out.to = to THEN <<out.row>> ELSE <<>>)
            \o FileRows(Tail(lines), to)

\* the rows of all files, file after file in ascending path order
RECURSIVE DirRows(_, _, _)
DirRows(dir, from, to) ==
    IF from > MaxFiles THEN <<>>
    ELSE (IF from \in DOMAIN dir.files THEN FileRows(dir.files[from], to)
          ELSE <<>>)
         \o DirRows(dir, from + 1, to)

\* A successful run leaves exactly the rows of its own input, in
\* file-then-line order with the files in path order, whatever the streams
\* held before.
SuccessfulRunRewrites ==
    run.pc = "done" =>
       /\ EraseStamps(silver.rows) = DirRows(landing, 1, "silver")
       /\ EraseStamps(rejects.rows) = DirRows(landing, 1, "rejects")

\* C10: after any sequence of runs both streams hold exactly the rows of the
\* most recent successful run, in file-then-line order with the files in
\* path order.
C10_StreamsOfLastSuccessfulRun ==
    /\ run.pc # "running" =>
          silver = lastGood.silver /\ rejects = lastGood.rejects
    /\ SuccessfulRunRewrites

\* The part of C10 that holds: what a successful run leaves.
C10_SuccessfulRunRewrites == SuccessfulRunRewrites

(***************************************************************************)
(* curate_to_gold.py: the aggregation of the two streams.                  *)
(***************************************************************************)
\* The characters of the model's texts in code point order.
CodeOrder ==
    <<"\t", " ", "+", "-", ".">> \o DigitChars \o <<":">> \o UpperLetters
       \o <<"[", "]", "_">> \o LowerLetters \o <<"{", "}", Surrogate>>

Ord(c) == IndexOf(CodeOrder, c)

\* a < b on str
RECURSIVE TextLess(_, _)
TextLess(a, b) ==
    IF b = <<>> THEN FALSE
    ELSE IF a = <<>> THEN TRUE
    ELSE IF Head(a) = Head(b) THEN TextLess(Tail(a), Tail(b))
    ELSE Ord(Head(a)) < Ord(Head(b))

\* a < b on tuples of str of one length
RECURSIVE KeyLess(_, _)
KeyLess(a, b) ==
    IF a = <<>> THEN FALSE
    ELSE IF Head(a) = Head(b) THEN KeyLess(Tail(a), Tail(b))
    ELSE TextLess(Head(a), Head(b))

\* sorted(counts.items()): the keys are distinct, so they alone decide
RECURSIVE SortedKeys(_)
SortedKeys(keys) ==
    IF keys = {} THEN <<>>
    ELSE LET lo == CHOOSE k \in keys : \A o \in keys \ {k} : KeyLess(k, o)
         IN <<lo>> \o SortedKeys(keys \ {lo})

IsObjectLine(line) ==
    ~IsEmptyLine(StripLine(line)) /\ line.json.ok /\ line.json.isobj

ObjectsOf(lines) == [i \in 1..Len(lines) |-> lines[i].json.obj]

\* The objects of the file's lines; none if the file is missing.  Blank
\* lines, lines that are no JSON and JSON that is no object are skipped.
_read_jsonl(file) ==
    IF ~file.exists THEN <<>>
    ELSE ObjectsOf(SelectSeq(file.rows, IsObjectLine))

\* the date of a parsed text, UNKNOWN_DAY for an unparsable one
DayOf(dt) == IF dt.ok THEN DateText(dt) ELSE UNKNOWN_DAY

DayOfText(s) ==
    IF s[Len(s)] = "Z"
    THEN DayOf(fromisoformat(ReplaceAll(s, <<"Z">>, UtcSuffix)))
    ELSE DayOf(fromisoformat(s))

_day_bucket(iso_ts) ==
    IF iso_ts.t # "str" \/ Strip(iso_ts.s) = <<>> THEN UNKNOWN_DAY
    ELSE DayOfText(Strip(iso_ts.s))

\* v or "UNKNOWN"
OrUnknown(v) == IF Truthy(v) THEN v ELSE Str(UNKNOWN)

\* .strip() exists on str only: on any other value, AttributeError
HasStrip(v) == v.t = "str"

\* dict of a defaultdict: the keys stored so far and their values
EmptyDict == [k \in {} |-> 0]

DictGet(d, key, default) == IF key \in DOMAIN d THEN d[key] ELSE default

DictSet(d, key, val) ==
    [k \in DOMAIN d \cup {key} |-> IF k = key THEN val ELSE d[k]]

DecisionRowFails(row) ==
    \/ ~HasStrip(OrUnknown(Get(row, "risk_band")))
    \/ ~HasStrip(OrUnknown(Get(row, "model_version")))

DecisionKey(row) ==
    <<_day_bucket(Get(row, "decision_ts")),
      Strip(OrUnknown(Get(row, "risk_band")).s),
      Strip(OrUnknown(Get(row, "model_version")).s)>>

\* decisions_conf_sum[key] += float(...), left alone if float() raises
AddConfidence(sums, key, conf) ==
    DictSet(sums, key,
            IF conf = Null THEN DictGet(sums, key, FloatV(0))
            ELSE FloatAdd(DictGet(sums, key, FloatV(0)), conf))

\* the loop over the clean rows; ok = FALSE once a row raises
RECURSIVE DecisionsLoop(_, _, _)
DecisionsLoop(rows, counts, sums) ==
    IF rows = <<>> THEN [ok |-> TRUE, counts |-> counts, conf_sum |-> sums]
    ELSE IF DecisionRowFails(Head(rows))
    THEN [ok |-> FALSE, counts |-> counts, conf_sum |-> sums]
    ELSE DecisionsLoop(
            Tail(rows),
            DictSet(counts, DecisionKey(Head(rows)),
                    DictGet(counts, DecisionKey(Head(rows)), 0) + 1),
            AddConfidence(sums, DecisionKey(Head(rows)),
                          PyFloat(Get(Head(rows), "confidence_score"))))

DecisionRow(key, cnt, sum) ==
    [decision_day |-> Str(key[1]),
     risk_band |-> Str(key[2]),
     model_version |-> Str(key[3]),
     decisions_count |-> IntV(cnt),
     avg_confidence_score |-> Round4(sum, cnt)]

DecisionRows(keys, counts, sums) ==
    [i \in 1..Len(keys) |->
        DecisionRow(keys[i], counts[keys[i]],
                    DictGet(sums, keys[i], FloatV(0)))]

\* decisions_out of the two dicts
DecisionsOut(counts, sums) ==
    DecisionRows(SortedKeys(DOMAIN counts), counts, sums)

RejectRowFails(row) == ~HasStrip(OrUnknown(Get(row, "reject_reason_code")))

RejectKey(row) ==
    <<_day_bucket(Get(row, "rejected_at_utc")),
      Upper(Strip(OrUnknown(Get(row, "reject_reason_code")).s))>>

\* the loop over the reject rows
RECURSIVE RejectsLoop(_, _)
RejectsLoop(rows, counts) ==
    IF rows = <<>> THEN [ok |-> TRUE, counts |-> counts]
    ELSE IF RejectRowFails(Head(rows)) THEN [ok |-> FALSE, counts |-> counts]
    ELSE RejectsLoop(
            Tail(rows),
            DictSet(counts, RejectKey(Head(rows)),
                    DictGet(counts, RejectKey(Head(rows)), 0) + 1))

RejectCountRow(key, cnt) ==
    [reject_day |-> Str(key[1]),
     reject_reason_code |-> Str(key[2]),
     rejects_count |-> IntV(cnt)]

RejectRows(keys, counts) ==
    [i \in 1..Len(keys) |-> RejectCountRow(keys[i], counts[keys[i]])]

\* rejects_out of the dict
RejectsOut(counts) == RejectRows(SortedKeys(DOMAIN counts), counts)

DecisionFieldNames ==
    <<"decision_day", "risk_band", "model_version", "decisions_count",
      "avg_confidence_score">>

RejectFieldNames == <<"reject_day", "reject_reason_code", "rejects_count">>

\* csv.DictWriter: the str() of each field of a row
CsvRow(r, fieldnames) ==
    [i \in 1..Len(fieldnames) |-> PyStr(r[fieldnames[i]])]

\* the header, then the rows
_write_csv(rows, fieldnames) ==
    [exists |-> TRUE,
     rows |-> <<fieldnames>>
              \o [i \in 1..Len(rows) |-> CsvRow(rows[i], fieldnames)]]

_write_jsonl(rows) == [exists |-> TRUE, rows |-> rows]

\* main: the clean rows are read and aggregated
GoldDecisions ==
    /\ gold.pc = "idle"
    /\ \E r \in {DecisionsLoop(_read_jsonl(cleanIn), EmptyDict, EmptyDict)} :
          /\ r.ok
          /\ gold' = [gold EXCEPT
                         !.pc = "decisions",
                         !.decisions_out = DecisionsOut(r.counts, r.conf_sum)]
    /\ UNCHANGED <<cleanIn, rejectsIn, silverVars, validateVars>>

\* main: a clean row raises AttributeError, nothing is written
GoldDecisionsFail ==
    /\ gold.pc = "idle"
    /\ \E r \in {DecisionsLoop(_read_jsonl(cleanIn), EmptyDict, EmptyDict)} :
          ~r.ok
    /\ gold' = [gold EXCEPT !.pc = "crashed"]
    /\ UNCHANGED <<cleanIn, rejectsIn, silverVars, validateVars>>

\* main: the reject rows are read and counted
GoldRejects ==
    /\ gold.pc = "decisions"
    /\ \E r \in {RejectsLoop(_read_jsonl(rejectsIn), EmptyDict)} :
          /\ r.ok
          /\ gold' = [gold EXCEPT !.pc = "rejects",
                                  !.rejects_out = RejectsOut(r.counts)]
    /\ UNCHANGED <<cleanIn, rejectsIn, silverVars, validateVars>>

\* main: a reject row raises AttributeError, nothing is written
GoldRejectsFail ==
    /\ gold.pc = "decisions"
    /\ \E r \in {RejectsLoop(_read_jsonl(rejectsIn), EmptyDict)} : ~r.ok
    /\ gold' = [gold EXCEPT !.pc = "crashed"]
    /\ UNCHANGED <<cleanIn, rejectsIn, silverVars, validateVars>>

\* main: the four outputs are written
GoldWrite ==
    /\ gold.pc = "rejects"
    /\ gold' = [gold EXCEPT
          !.pc = "done",
          !.decisions_csv = _write_csv(gold.decisions_out, DecisionFieldNames),
          !.decisions_jsonl = _write_jsonl(gold.decisions_out),
          !.rejects_csv = _write_csv(gold.rejects_out, RejectFieldNames),
          !.rejects_jsonl = _write_jsonl(gold.rejects_out)]
    /\ UNCHANGED <<cleanIn, rejectsIn, silverVars, validateVars>>

(***************************************************************************)
(* The aggregation's inputs and its specification.                         *)
(***************************************************************************)
TxtLOW == <<"L","O","W">>
TxtHighPadded == <<" ","H","I","G","H"," ">>
TsNextDay == <<"2","0","2","4","-","0","1","-","0","2","T","0","4",":","0","0",":","0","0","Z">>

CleanRow(ts, band, version, conf) ==
    [NoRecord EXCEPT !.decision_ts = ts, !.risk_band = band,
                     !.model_version = version, !.confidence_score = conf]

\* blank; no JSON; two rows of one key with confidences 1.0 and 0.9999; a
\* row of another key whose confidence is text; a row without any field; a
\* row with a number for risk_band
GoldCleanLines ==
    {Line(0, "", JsonError, 1),
     Line(0, "{bad", JsonError, 0),
     Line(0, "{one}",
          JsonObject(CleanRow(Str(TsZulu), Str(TxtLOW), Str(TxtV1),
                              FloatV(10000))), 0),
     Line(0, "{nearly one}",
          JsonObject(CleanRow(Str(TsZulu), Str(TxtLOW), Str(TxtV1),
                              FloatV(9999))), 0),
     Line(0, "{high}",
          JsonObject(CleanRow(Str(TsOffset), Str(TxtHighPadded), Null,
                              Str(TxtAbc))), 0),
     Line(0, "{}", JsonObject(NoRecord), 0),
     Line(0, "{band 5}",
          JsonObject(CleanRow(Str(TsZulu), IntV(5), Str(TxtV1),
                              FloatV(5000))), 0)}

RejectLine(at, code) == [rejected_at_utc |-> at, reject_reason_code |-> code]

\* no object; two reasons on two days, one in lower case; a number for
\* the reason
GoldRejectLines ==
    {Line(0, "[1, 2]", JsonOther, 0),
     Line(0, "{policy}",
          JsonObject(RejectLine(Str(TsNextDay), Str(MISSING_POLICY_ID))), 0),
     Line(0, "{json}",
          JsonObject(RejectLine(Str(TsZulu),
                                Str(<<" ","i","n","v","a","l","i","d","_",
                                      "j","s","o","n">>))), 0),
     Line(0, "{code 7}", JsonObject(RejectLine(Absent, IntV(7))), 0)}

\* a file with up to n lines, or no file
Streams(lines, n) ==
    {NoStream} \cup {[exists |-> TRUE, rows |-> rows] : rows \in SeqsUpTo(lines, n)}

InitGold ==
    /\ cleanIn \in Streams(GoldCleanLines, MaxRows)
    /\ rejectsIn \in Streams(GoldRejectLines, MaxLines)
    /\ gold = NoGold
    /\ SilverIdle
    /\ ValidateIdle

NextGold ==
    \/ GoldDecisions \/ GoldDecisionsFail
    \/ GoldRejects \/ GoldRejectsFail
    \/ GoldWrite

SpecGold == InitGold /\ [][NextGold]_vars

(***************************************************************************)
(* Properties of the aggregation.                                          *)
(***************************************************************************)
GoldEnded == gold.pc \in {"done", "crashed"}

FourOutputsWritten ==
    /\ gold.decisions_csv.exists /\ gold.decisions_jsonl.exists
    /\ gold.rejects_csv.exists /\ gold.rejects_jsonl.exists

\* C4: no input content makes either stage abort: the Landing->Silver run
\* reads every line to the end, and the Gold run completes and writes its
\* four outputs whatever the lines of the two streams are.
C4_NoContentAborts ==
    /\ run.pc # "crashed"
    /\ gold.pc # "crashed"
    /\ gold.pc = "done" => FourOutputsWritten

\* The part of C4 that holds: a Gold run that ends without an exception has
\* written its four outputs, and one that raises has written none.
C4_OutputsAllOrNone ==
    /\ gold.pc = "done" => FourOutputsWritten
    /\ gold.pc # "done" =>
          /\ ~gold.decisions_csv.exists /\ ~gold.decisions_jsonl.exists
          /\ ~gold.rejects_csv.exists /\ ~gold.rejects_jsonl.exists

\* the confidence a record adds to the sum, in units of 1e-4: its numeric
\* value, 0 if missing or not numeric
ConfidenceOf(row) ==
    IF PyFloat(Get(row, "confidence_score")) = Null THEN 0
    ELSE PyFloat(Get(row, "confidence_score")).n

RECURSIVE SumConfidence(_, _)
SumConfidence(rows, key) ==
    IF rows = <<>> THEN 0
    ELSE (IF DecisionKey(Head(rows)) = key THEN ConfidenceOf(Head(rows))
          ELSE 0)
         + SumConfidence(Tail(rows), key)

CountKey(rows, key) ==
    Cardinality({i \in 1..Len(rows) : DecisionKey(rows[i]) = key})

KeysOf(rows) == {DecisionKey(rows[i]) : i \in 1..Len(rows)}

OutKey(r) == <<r.decision_day.s, r.risk_band.s, r.model_version.s>>

\* The decisions output for the records read: one row per key, its count the
\* number of records of the key, its average their summed confidence over
\* the count, to the four decimals the output carries.
DecisionsAggregate(rows, out) ==
    /\ Len(out) = Cardinality(KeysOf(rows))
    /\ {OutKey(out[i]) : i \in 1..Len(out)} = KeysOf(rows)
    /\ \A i \in 1..Len(out) :
          /\ out[i].decisions_count = IntV(CountKey(rows, OutKey(out[i])))
          /\ out[i].avg_confidence_score =
                FloatV(RoundDiv(SumConfidence(rows, OutKey(out[i])),
                                CountKey(rows, OutKey(out[i]))))

\* C8: for every Clean stream the decisions output has exactly one row per
\* key (decision_day, risk_band, model_version) of the stream, with
\* decisions_count the number of records of that key and
\* avg_confidence_score the sum of their numeric confidence_score values
\* divided by the count, a missing or non-numeric value adding 0.
C8_DecisionsAggregate ==
    GoldEnded =>
       /\ gold.decisions_jsonl.exists
       /\ DecisionsAggregate(_read_jsonl(cleanIn), gold.decisions_jsonl.rows)

\* The part of C8 that holds: in a run that completes, one row per key, and
\* counts that are at least 1 and add up to the number of records read.
RECURSIVE SumCounts(_)
SumCounts(out) ==
    IF out = <<>> THEN 0
    ELSE Head(out).decisions_count.n + SumCounts(Tail(out))

C8_CountsWhenDone ==
    gold.pc = "done" =>
       /\ Len(gold.decisions_jsonl.rows) = Cardinality(KeysOf(_read_jsonl(cleanIn)))
       /\ \A i \in 1..Len(gold.decisions_jsonl.rows) :
             gold.decisions_jsonl.rows[i].decisions_count =
                IntV(CountKey(_read_jsonl(cleanIn),
                              OutKey(gold.decisions_jsonl.rows[i])))
       /\ SumCounts(gold.decisions_jsonl.rows) = Len(_read_jsonl(cleanIn))

Perms(n) == {p \in [1..n -> 1..n] : \A i, j \in 1..n : p[i] = p[j] => i = j}

Permuted(file, p) ==
    [exists |-> file.exists, rows |-> [i \in 1..Len(file.rows) |-> file.rows[p[i]]]]

\* decisions_out for the lines of a Clean file, had the run read them
DecisionsFor(file) ==
    DecisionsOut(DecisionsLoop(_read_jsonl(file), EmptyDict, EmptyDict).counts,
                 DecisionsLoop(_read_jsonl(file), EmptyDict, EmptyDict).conf_sum)

RejectsFor(file) == RejectsOut(RejectsLoop(_read_jsonl(file), EmptyDict).counts)

OutRejectKey(r) == <<r.reject_day.s, r.reject_reason_code.s>>

\* rows strictly ascending by key: no two rows share one
StrictlyAscending ==
    /\ \A i \in 1..(Len(gold.decisions_jsonl.rows) - 1) :
          KeyLess(OutKey(gold.decisions_jsonl.rows[i]),
                  OutKey(gold.decisions_jsonl.rows[i + 1]))
    /\ \A i \in 1..(Len(gold.rejects_jsonl.rows) - 1) :
          KeyLess(OutRejectKey(gold.rejects_jsonl.rows[i]),
                  OutRejectKey(gold.rejects_jsonl.rows[i + 1]))

\* C9: Gold rows are strictly ascending by their key tuple, and the output
\* is the same rows in the same order for every permutation of the lines
\* of the Clean and the Rejects stream.
C9_OrderIndependent ==
    gold.pc = "done" =>
       /\ StrictlyAscending
       /\ \A p \in Perms(Len(cleanIn.rows)) :
             DecisionsFor(Permuted(cleanIn, p)) = gold.decisions_jsonl.rows
       /\ \A p \in Perms(Len(rejectsIn.rows)) :
             RejectsFor(Permuted(rejectsIn, p)) = gold.rejects_jsonl.rows

\* The part of C9 that holds: the rows are strictly ascending by key, and
\* keys and counts are those of every permutation of the lines.
Unaveraged(rows) ==
    [i \in 1..Len(rows) |-> [rows[i] EXCEPT !.avg_confidence_score = Null]]

C9_OrderIndependentButAverage ==
    gold.pc = "done" =>
       /\ StrictlyAscending
       /\ \A p \in Perms(Len(cleanIn.rows)) :
             Unaveraged(DecisionsFor(Permuted(cleanIn, p)))
                = Unaveraged(gold.decisions_jsonl.rows)
       /\ \A p \in Perms(Len(rejectsIn.rows)) :
             RejectsFor(Permuted(rejectsIn, p)) = gold.rejects_jsonl.rows

(***************************************************************************)
(* The day bucket of the aggregation against the timestamp normalizer.     *)
(***************************************************************************)
DayTexts ==
    {<<"2","0","2","4","-","0","1","-","0","1">>,
     <<"2","0","2","4","-","1","2","-","3","1">>,
     <<"0","0","0","1","-","0","1","-","0","1">>,
     <<"9","9","9","9","-","1","2","-","3","1">>,
     <<"2","0","2","4","-","0","2","-","3","0">>}

TimeTexts == {<<"T","0","0",":","3","0",":","0","0">>, <<"T","2","3",":","3","0",":","0","0">>}

OffsetTexts ==
    {<<>>, <<"Z">>,
     <<"+","0","0",":","0","0">>,
     <<"+","0","5",":","0","0">>,
     <<"-","0","5",":","0","0">>,
     <<"+","2","4",":","0","0">>}

\* dates alone, and every date with every time and offset, bare or with
\* whitespace around; values that are no text
DayBucketValues ==
    {Absent, Null, IntV(5), Str(TxtBlank), Str(TxtAbc)}
       \cup {Str(d) : d \in DayTexts}
       \cup {Str(d \o t \o o) : d \in DayTexts, t \in TimeTexts,
                                o \in OffsetTexts}
       \cup {Str(<<" ">> \o d \o t \o o \o <<" ">>) :
                d \in {<<"2","0","2","4","-","0","1","-","0","1">>}, t \in TimeTexts, o \in OffsetTexts}

\* a Clean file of one record that has this decision_ts
DayBucketStream(ts) ==
    [exists |-> TRUE,
     rows |-> <<Line(0, "{ts}",
                     JsonObject(CleanRow(ts, Str(TxtLOW), Str(TxtV1),
                                         FloatV(5000))), 0)>>]

InitDayBucket ==
    /\ \E ts \in DayBucketValues : cleanIn = DayBucketStream(ts)
    /\ rejectsIn = NoStream
    /\ gold = NoGold
    /\ SilverIdle
    /\ ValidateIdle

NextDayBucket == GoldDecisions \/ GoldRejects \/ GoldWrite

SpecDayBucket == InitDayBucket /\ [][NextDayBucket]_vars

\* the day of the normalizer's canonical UTC text, UNKNOWN_DAY if it
\* reports the value invalid
NormalizedDay(v) ==
    IF _parse_iso_ts(v) = Null THEN UNKNOWN_DAY
    ELSE SubSeq(_parse_iso_ts(v).s, 1, 10)

DaysWritten ==
    {gold.decisions_jsonl.rows[i].decision_day.s :
        i \in 1..Len(gold.decisions_jsonl.rows)}

DaysRead == {Get(_read_jsonl(cleanIn)[i], "decision_ts") :
                i \in 1..Len(_read_jsonl(cleanIn))}

\* C11: the day bucket of a record is UNKNOWN_DAY exactly when the
\* normalizer reports its decision_ts invalid, and otherwise the calendar
\* date of the normalizer's canonical UTC result.
C11_DayBucketIsNormalizedDay ==
    gold.pc = "done" => DaysWritten = {NormalizedDay(v) : v \in DaysRead}

\* the offset the text carries, 0 if it carries none or does not parse
OffsetOf(v) ==
    IF v.t # "str" \/ Strip(v.s) = <<>> THEN 0
    ELSE fromisoformat(ReplaceAll(Strip(v.s), <<"Z">>, UtcSuffix)).off

\* The part of C11 that holds: the two agree on every value that carries no
\* offset or the offset zero.
C11_AgreesWithoutOffset ==
    gold.pc = "done" =>
       \A v \in DaysRead :
          OffsetOf(v) = 0 => DaysWritten = {NormalizedDay(v)}
====
